---- MODULE Spec2Model ----
(***************************************************************************)
(* PDA -> CFG conversion pipeline of CS357_PDA_to_CFG.py.                  *)
(*                                                                         *)
(* Python strings are modelled as sequences of one-character strings, so   *)
(* str(), int(), slicing, split() and equality of names are computed the   *)
(* way the program computes them.  A rule value ("x A_12 y | ...") is kept *)
(* as the sequence of its " | "-separated alternatives, each the sequence  *)
(* of its blank-separated tokens; no name of the model holds a blank or a  *)
(* bar, so joining and splitting a value are inverse to each other.        *)
(* Dictionaries are sequences of [key, value] entries in insertion order.  *)
(***************************************************************************)
EXTENDS Integers, Sequences, FiniteSets, TLC

\* ------------------------------------------------------------------------
\* Bounds of the model
\* ------------------------------------------------------------------------

\* largest number of "transitions" rows of input.csv
MaxTrans == 3

\* ------------------------------------------------------------------------
\* Strings
\* ------------------------------------------------------------------------

Range(s) == {s[i] : i \in 1..Len(s)}

epsilon == <<"e", "p", "s", "i", "l", "o", "n">>

\* Python's None (the initial value of start_state)
None == <<"<None>">>

DigitChars == <<"0", "1", "2", "3", "4", "5", "6", "7", "8", "9">>

DigitVal(c) == (CHOOSE d \in 1..10 : DigitChars[d] = c) - 1

\* str(n) for n >= 0
RECURSIVE str(_)
str(n) == IF n < 10 THEN <<DigitChars[n + 1]>>
          ELSE str(n \div 10) \o <<DigitChars[(n % 10) + 1]>>

\* int(s) for a string of decimal digits
RECURSIVE int(_)
int(s) == IF Len(s) = 0 THEN 0
          ELSE 10 * int(SubSeq(s, 1, Len(s) - 1)) + DigitVal(s[Len(s)])

\* s.split(c): the pieces of s between the occurrences of character c
RECURSIVE split(_, _)
split(s, c) ==
    IF \A i \in 1..Len(s) : s[i] # c THEN <<s>>
    ELSE LET k == CHOOSE i \in 1..Len(s) : s[i] = c /\ \A j \in 1..(i - 1) : s[j] # c
         IN  <<SubSeq(s, 1, k - 1)>> \o split(SubSeq(s, k + 1, Len(s)), c)

\* the name of state number n: 'q0', 'q1', ..., 'q10', ...
StateName(n) == <<"q">> \o str(n)

\* int(state[1:])
StateNumber(state) == int(Tail(state))

\* ------------------------------------------------------------------------
\* Dictionaries in insertion order
\* ------------------------------------------------------------------------

Keys(d) == {d[i].key : i \in 1..Len(d)}

Lookup(d, k) == d[CHOOSE i \in 1..Len(d) : d[i].key = k].value

\* d[k] = v : an existing key keeps its position, a new key goes last
Store(d, k, v) ==
    IF k \in Keys(d)
    THEN [i \in 1..Len(d) |-> IF d[i].key = k THEN [key |-> k, value |-> v] ELSE d[i]]
    ELSE Append(d, [key |-> k, value |-> v])

\* ------------------------------------------------------------------------
\* Loading
\* ------------------------------------------------------------------------

create_pda_json(states, input_alphabet, stack_alphabet, transitions, start_state, final_states) ==
    [states |-> states,
     input_symbols |-> input_alphabet,
     stack_symbols |-> stack_alphabet,
     transitions |-> transitions,
     initial_state |-> start_state,
     final_states |-> final_states]

\* the "transitions" rows grouped by current_state, in order of first appearance
RECURSIVE GroupTransitions(_, _)
GroupTransitions(rows, transitions) ==
    IF rows = <<>> THEN transitions
    ELSE LET r == Head(rows)
             t == [input_symbol |-> r.input_symbol,
                   popped_symbol |-> r.popped_symbol,
                   next_state |-> r.next_state,
                   pushed_symbol |-> r.pushed_symbol]
             old == IF r.current_state \in Keys(transitions)
                    THEN Lookup(transitions, r.current_state) ELSE <<>>
         IN  GroupTransitions(Tail(rows), Store(transitions, r.current_state, Append(old, t)))

read_pda_from_csv(csv) ==
    create_pda_json(csv.states, csv.input_alphabet, csv.stack_alphabet,
                    GroupTransitions(csv.transitions, <<>>),
                    csv.initial_state, csv.final_states)

\* for current_state, transitions_list in transitions.items(): for transition in
\* transitions_list: the transitions in iteration order, each with its source
RECURSIVE TransitionItems(_)
TransitionItems(transitions) ==
    IF transitions = <<>> THEN <<>>
    ELSE LET e == Head(transitions)
         IN  [i \in 1..Len(e.value) |->
                 [current_state |-> e.key,
                  input_symbol |-> e.value[i].input_symbol,
                  popped_symbol |-> e.value[i].popped_symbol,
                  next_state |-> e.value[i].next_state,
                  pushed_symbol |-> e.value[i].pushed_symbol]]
             \o TransitionItems(Tail(transitions))

\* ------------------------------------------------------------------------
\* Structural validation.  Every validator yields the set of ValueErrors it
\* may raise (a loop over a Python set may meet any offending member first);
\* the empty set means that it returns normally.
\* ------------------------------------------------------------------------

Err(kind, entity) == [kind |-> kind, entity |-> entity]

\* the errors of the first check that fails
RECURSIVE FirstError(_)
FirstError(checks) ==
    IF checks = <<>> THEN {}
    ELSE IF Head(checks) # {} THEN Head(checks)
    ELSE FirstError(Tail(checks))

validate_non_empty_components(pda) ==
    IF pda.states = <<>> THEN {Err("States cannot be empty.", <<>>)}
    ELSE IF pda.input_symbols = <<>> THEN {Err("Input alphabet cannot be empty.", <<>>)}
    ELSE IF pda.stack_symbols = <<>> THEN {Err("Stack alphabet cannot be empty.", <<>>)}
    ELSE IF pda.transitions = <<>> THEN {Err("Transitions cannot be empty.", <<>>)}
    ELSE IF pda.initial_state = None THEN {Err("Initial state cannot be None.", <<>>)}
    ELSE IF pda.final_states = <<>> THEN {Err("Final states cannot be empty.", <<>>)}
    ELSE {}

validate_epsilon_usage(states, input_symbols, stack_symbols, initial_state, final_states) ==
    IF epsilon \in states THEN {Err("epsilon used as a state", <<>>)}
    ELSE IF epsilon \in input_symbols THEN {Err("epsilon used as an input symbol", <<>>)}
    ELSE IF epsilon \in stack_symbols THEN {Err("epsilon used as a stack symbol", <<>>)}
    ELSE IF initial_state = epsilon THEN {Err("epsilon used as the initial state", <<>>)}
    ELSE IF epsilon \in final_states THEN {Err("epsilon used as a final state", <<>>)}
    ELSE {}

validate_no_overlap(states, input_symbols, stack_symbols) ==
    LET overlapping == states \cap (input_symbols \cup stack_symbols)
    IN  IF overlapping # {} THEN {Err("States cannot overlap with symbols", <<>>)} ELSE {}

validate_initial_and_final_states(states, initial_state, final_states) ==
    IF initial_state \notin states
    THEN {Err("Initial state is not a valid state", initial_state)}
    ELSE {Err("Final state is not a valid state", s) : s \in final_states \ states}

validate_transition(transition, current_state, states, input_symbols, stack_symbols) ==
    IF transition.input_symbol # epsilon /\ transition.input_symbol \notin input_symbols
    THEN {Err("Transition input symbol is not valid", transition.input_symbol)}
    ELSE IF transition.popped_symbol # epsilon /\ transition.popped_symbol \notin stack_symbols
    THEN {Err("Transition popped symbol is not valid", transition.popped_symbol)}
    ELSE IF transition.next_state \notin states
    THEN {Err("Transition next state is not valid", transition.next_state)}
    ELSE IF transition.pushed_symbol # epsilon /\ transition.pushed_symbol \notin stack_symbols
    THEN {Err("Transition pushed symbol is not valid", transition.pushed_symbol)}
    ELSE {}

RECURSIVE validate_transitions(_, _, _, _)
validate_transitions(states, input_symbols, stack_symbols, transitions) ==
    IF transitions = <<>> THEN {}
    ELSE LET e == Head(transitions)
         IN  IF e.key \notin states
             THEN {Err("Transition state is not a valid state", e.key)}
             ELSE LET list == FirstError([i \in 1..Len(e.value) |->
                                  validate_transition(e.value[i], e.key, states,
                                                      input_symbols, stack_symbols)])
                  IN  IF list # {} THEN list
                      ELSE validate_transitions(states, input_symbols, stack_symbols,
                                                Tail(transitions))

validate_additional_constraints(pda, input_symbols, stack_symbols, states, final_states) ==
    LET initial_state == pda.initial_state
    IN  IF initial_state \in input_symbols \/ initial_state \in stack_symbols
        THEN {Err("Initial state cannot be a symbol", initial_state)}
        ELSE FirstError(<<
            {Err("Final state cannot be a symbol", f) :
                f \in final_states \cap (input_symbols \cup stack_symbols)},
            {Err("Input symbol cannot be a state", x) : x \in input_symbols \cap states},
            {Err("Stack symbol cannot be a state", x) : x \in stack_symbols \cap states} >>)

validate_pda(pda) ==
    LET states == Range(pda.states)
        input_symbols == Range(pda.input_symbols)
        stack_symbols == Range(pda.stack_symbols)
        transitions == pda.transitions
        initial_state == pda.initial_state
        final_states == Range(pda.final_states)
    IN  FirstError(<<
            validate_non_empty_components(pda),
            validate_epsilon_usage(states, input_symbols, stack_symbols,
                                   initial_state, final_states),
            validate_no_overlap(states, input_symbols, stack_symbols),
            validate_initial_and_final_states(states, initial_state, final_states),
            validate_transitions(states, input_symbols, stack_symbols, transitions),
            validate_additional_constraints(pda, input_symbols, stack_symbols,
                                            states, final_states) >>)

\* ------------------------------------------------------------------------
\* Conversion readiness
\* ------------------------------------------------------------------------

\* stack_operations[symbol][field] += 1, creating the entry at first use
Count(stack_operations, symbol, field) ==
    LET old == IF symbol \in Keys(stack_operations)
               THEN Lookup(stack_operations, symbol)
               ELSE [pushed |-> 0, popped |-> 0]
    IN  Store(stack_operations, symbol, [old EXCEPT ![field] = @ + 1])

\* the tracking loop of validate_stack_operations
RECURSIVE TrackStackOperations(_, _)
TrackStackOperations(items, stack_operations) ==
    IF items = <<>> THEN stack_operations
    ELSE LET t == Head(items)
             afterPush == IF t.pushed_symbol # epsilon
                          THEN Count(stack_operations, t.pushed_symbol, "pushed")
                          ELSE stack_operations
             afterPop == IF t.popped_symbol # epsilon
                         THEN Count(afterPush, t.popped_symbol, "popped")
                         ELSE afterPush
         IN  TrackStackOperations(Tail(items), afterPop)

\* StackNotEmptied with the comparison off by one
StackNotEmptied_OffByOne(operations) == operations.pushed > operations.popped + 1

\* the test that makes validate_stack_operations raise for one symbol
StackNotEmptied(operations) == operations.pushed > operations.popped

validate_stack_operations(pda) ==
    LET stack_operations == TrackStackOperations(TransitionItems(pda.transitions), <<>>)
        bad == {i \in 1..Len(stack_operations) : StackNotEmptied(stack_operations[i].value)}
    IN  IF bad = {} THEN {}
        ELSE {Err("Stack not emptied", stack_operations[CHOOSE i \in bad : \A j \in bad : i <= j].key)}

\* StackStaysTheSame that only catches the transition that touches no symbol
StackStaysTheSame_EpsilonOnly(transition) ==
    transition.popped_symbol = epsilon /\ transition.pushed_symbol = epsilon

\* the test that makes validate_stack_symbol_transitions raise for one transition
StackStaysTheSame(transition) == transition.popped_symbol = transition.pushed_symbol

validate_stack_symbol_transitions(pda) ==
    LET items == TransitionItems(pda.transitions)
        bad == {i \in 1..Len(items) : StackStaysTheSame(items[i])}
    IN  IF bad = {} THEN {}
        ELSE {Err("PDA transitions incorrect",
                  items[CHOOSE i \in bad : \A j \in bad : i <= j].popped_symbol)}

validate_pda_conversion(pda) ==
    FirstError(<<
        IF Len(pda.final_states) > 1
        THEN {Err("PDA incorrect: There are multiple final states", <<>>)} ELSE {},
        validate_stack_operations(pda),
        validate_stack_symbol_transitions(pda) >>)

\* ------------------------------------------------------------------------
\* Pairing
\* ------------------------------------------------------------------------

\* IsPush that takes only the transitions that pop nothing for pushes
IsPush_PureOnly(transition) ==
    transition.pushed_symbol # epsilon /\ transition.popped_symbol = epsilon

\* "if push_symbol != 'epsilon'"
IsPush(transition) == transition.pushed_symbol # epsilon

\* PopMatches without the comparison of the two symbols
PopMatches_AnySymbol(pop_transition, push_symbol) ==
    /\ pop_transition.popped_symbol # epsilon
    /\ pop_transition.pushed_symbol = epsilon

\* "if pop_check_symbol == push_symbol and pop_action_symbol == 'epsilon'"
PopMatches(pop_transition, push_symbol) ==
    /\ pop_transition.popped_symbol = push_symbol
    /\ pop_transition.pushed_symbol = epsilon

\* the two nested loops of find_push_to_pop, k counting the (push, pop)
\* combinations already visited
RECURSIVE FindPairs(_, _, _)
FindPairs(items, k, pushed_popped_pairs) ==
    LET n == Len(items)
    IN  IF k >= n * n THEN pushed_popped_pairs
        ELSE LET transition == items[(k \div n) + 1]
                 pop_transition == items[(k % n) + 1]
                 push_pop_pair == [stack_symbol |-> transition.pushed_symbol,
                                   start_push_state |-> transition.current_state,
                                   end_push_state |-> transition.next_state,
                                   start_pop_state |-> pop_transition.current_state,
                                   end_pop_state |-> pop_transition.next_state]
             IN  IF /\ IsPush(transition)
                    /\ PopMatches(pop_transition, transition.pushed_symbol)
                    /\ push_pop_pair \notin Range(pushed_popped_pairs)
                 THEN FindPairs(items, k + 1, Append(pushed_popped_pairs, push_pop_pair))
                 ELSE FindPairs(items, k + 1, pushed_popped_pairs)

find_push_to_pop(pda) == FindPairs(TransitionItems(pda.transitions), 0, <<>>)

\* ------------------------------------------------------------------------
\* Rule generation
\* ------------------------------------------------------------------------

\* f"A_{i}{j}"
RuleName(i, j) == <<"A", "_">> \o str(i) \o str(j)

\* the four branches that put the input symbols around the inner nonterminal
OutputRule(push_input_symbol, output_rule, pop_input_symbol) ==
    IF pop_input_symbol = epsilon /\ push_input_symbol = epsilon
    THEN <<epsilon, output_rule, epsilon>>
    ELSE IF pop_input_symbol = epsilon /\ push_input_symbol # None
    THEN <<push_input_symbol, output_rule, epsilon>>
    ELSE IF pop_input_symbol # None /\ push_input_symbol = epsilon
    THEN <<epsilon, output_rule, pop_input_symbol>>
    ELSE IF pop_input_symbol # None /\ push_input_symbol # None
    THEN <<push_input_symbol, output_rule, pop_input_symbol>>
    ELSE output_rule

\* AddAlternative that assigns where the program appends
AddAlternative_Overwrite(rules, input_rule, output_rule) ==
    Store(rules, input_rule, <<output_rule>>)

\* rules[input_rule] += " | " + output_rule, or a new entry
AddAlternative(rules, input_rule, output_rule) ==
    IF input_rule \in Keys(rules)
    THEN Store(rules, input_rule, Append(Lookup(rules, input_rule), output_rule))
    ELSE Store(rules, input_rule, <<output_rule>>)

push_input_symbols(items, pair) ==
    LET Test(t) == t.next_state = pair.end_push_state /\ t.pushed_symbol = pair.stack_symbol
        sel == SelectSeq(items, Test)
    IN  [i \in 1..Len(sel) |-> sel[i].input_symbol]

pop_input_symbols(items, pair) ==
    LET Test(t) == t.next_state = pair.end_pop_state /\ t.popped_symbol = pair.stack_symbol
        sel == SelectSeq(items, Test)
    IN  [i \in 1..Len(sel) |-> sel[i].input_symbol]

\* the two nested loops over the input symbols of one pair, k counting the
\* combinations already visited
RECURSIVE CombineSymbols(_, _, _, _, _)
CombineSymbols(pair, pushes, pops, k, rules) ==
    LET n == Len(pops)
    IN  IF k >= Len(pushes) * n THEN rules
        ELSE LET push_input_symbol == pushes[(k \div n) + 1]
                 pop_input_symbol == pops[(k % n) + 1]
                 input_rule == RuleName(StateNumber(pair.start_push_state),
                                        StateNumber(pair.end_pop_state))
                 output_rule == RuleName(StateNumber(pair.end_push_state),
                                         StateNumber(pair.start_pop_state))
             IN  CombineSymbols(pair, pushes, pops, k + 1,
                    AddAlternative(rules, input_rule,
                        OutputRule(push_input_symbol, output_rule, pop_input_symbol)))

RECURSIVE GenerateFrom(_, _, _)
GenerateFrom(items, push_pop_pairs, rules) ==
    IF push_pop_pairs = <<>> THEN rules
    ELSE LET pair == Head(push_pop_pairs)
         IN  GenerateFrom(items, Tail(push_pop_pairs),
                CombineSymbols(pair, push_input_symbols(items, pair),
                               pop_input_symbols(items, pair), 0, rules))

generate_rules(pda, push_pop_pairs) ==
    GenerateFrom(TransitionItems(pda.transitions), push_pop_pairs, <<>>)

\* ------------------------------------------------------------------------
\* Finishing
\* ------------------------------------------------------------------------

\* split_part[1] if len(split_part) > 1 else None
PartNonTerminal(split_part) == IF Len(split_part) > 1 THEN split_part[2] ELSE None

\* int(part_non_terminal.strip().split("_")[1])
PartNumber(part_non_terminal) == int(split(part_non_terminal, "_")[2])

\* the test that keeps one alternative of a rule
IsUseful(split_part, all_non_terminals) ==
    LET part_non_terminal == PartNonTerminal(split_part)
        number == PartNumber(part_non_terminal)
    IN  /\ part_non_terminal # None
        /\ \/ part_non_terminal \in all_non_terminals
           \/ part_non_terminal = split_part[1]
           \/ number % 11 = 0

RECURSIVE PruneFrom(_, _, _)
PruneFrom(entries, all_non_terminals, useful_rules) ==
    IF entries = <<>> THEN useful_rules
    ELSE LET e == Head(entries)
             Test(part) == IsUseful(part, all_non_terminals)
             useful_parts == SelectSeq(e.value, Test)
         IN  PruneFrom(Tail(entries), all_non_terminals,
                       IF useful_parts # <<>>
                       THEN Store(useful_rules, e.key, useful_parts)
                       ELSE useful_rules)

prune_useless_rules(rules) == PruneFrom(rules, Keys(rules), <<>>)

Max(a, b) == IF a >= b THEN a ELSE b

RECURSIVE LargestFrom(_, _)
LargestFrom(items, max_number) ==
    IF items = <<>> THEN max_number
    ELSE LET t == Head(items)
         IN  LargestFrom(Tail(items),
                Max(Max(max_number, StateNumber(t.current_state)),
                    StateNumber(t.next_state)))

find_largest_transition_number(pda) == LargestFrom(TransitionItems(pda.transitions), 0)

\* tokens of the quantifier comments
FOR == <<"f", "o", "r">>
LE == <<"<", "=">>
ONE == <<"1">>

A_ii == <<"A", "_", "i", "i">>
A_ik == <<"A", "_", "i", "k">>
A_ij == <<"A", "_", "i", "j">>
A_jk == <<"A", "_", "j", "k">>

\* rules["A_ii"] = "epsilon\n\tfor 1 <= i <= N"
add_epsilon_rules(rules, largest_transition_number) ==
    Store(rules, A_ii,
          << <<epsilon, FOR, ONE, LE, <<"i">>, LE, str(largest_transition_number)>> >>)

\* add_final_transition_rule that stores the closure family under "A_ii"
add_final_transition_rule_WrongKey(rules, largest_transition_number) ==
    LET N == str(largest_transition_number)
    IN  Store(rules, A_ii,
              << <<A_ij, A_jk, FOR, ONE, LE, <<"i">>, LE, N \o <<",">>,
                   ONE, LE, <<"j">>, LE, N \o <<",">>,
                   ONE, LE, <<"k">>, LE, N>> >>)

\* rules["A_ik"] = "A_ij A_jk\n\tfor 1 <= i <= N, 1 <= j <= N, 1 <= k <= N"
add_final_transition_rule(rules, largest_transition_number) ==
    LET N == str(largest_transition_number)
    IN  Store(rules, A_ik,
              << <<A_ij, A_jk, FOR, ONE, LE, <<"i">>, LE, N \o <<",">>,
                   ONE, LE, <<"j">>, LE, N \o <<",">>,
                   ONE, LE, <<"k">>, LE, N>> >>)

\* ------------------------------------------------------------------------
\* The CFG
\* ------------------------------------------------------------------------

create_cfg_json(variables, alphabet, rules, start_variable) ==
    [variables |-> variables,
     alphabet |-> alphabet,
     rules |-> rules,
     start_variable |-> start_variable]

\* token.startswith("A_")
StartsWithA(token) == Len(token) >= 2 /\ token[1] = "A" /\ token[2] = "_"

\* The keys of the rules and the tokens of their values that start with "A_".
\* The program returns them as a sorted list; the model keeps the set.
process_grammar_and_create_cfg(rules, pda) ==
    LET variables == Keys(rules) \cup
            {tok \in UNION {Range(part) : part \in
                        UNION {Range(rules[i].value) : i \in 1..Len(rules)}} :
                StartsWithA(tok)}
        alphabet == pda.input_symbols
        start_variable == rules[1].key
    IN  create_cfg_json(variables, alphabet, rules, start_variable)

\* ------------------------------------------------------------------------
\* The input files of the model
\* ------------------------------------------------------------------------

a == <<"a">>
Z == <<"Z">>
Y == <<"Y">>

q0 == StateName(0)
q1 == StateName(1)
q10 == StateName(10)
q2 == StateName(2)

\* (input_symbol, popped_symbol, pushed_symbol): two pushes, two pops, two
\* transitions that replace the top of the stack, one that leaves it as it is
Labels == {<<a, epsilon, Z>>, <<epsilon, epsilon, Z>>,
           <<a, Z, epsilon>>, <<epsilon, Z, epsilon>>,
           <<epsilon, Z, Y>>, <<a, Y, Z>>,
           <<a, Z, Z>>}

\* (current_state, next_state) of the rows of a two-state machine
Edges == {<<q0, q1>>, <<q1, q0>>}

\* one push and one pop
PlainLabels == {<<a, epsilon, Z>>, <<epsilon, Z, epsilon>>}

\* (current_state, next_state) of the rows of a machine with a two-digit state
WideEdges == {<<q0, q0>>, <<q0, q1>>, <<q0, q10>>, <<q1, q0>>, <<q10, q1>>, <<q10, q10>>}

RowsOf(edges, labels) ==
    {[current_state |-> e[1], input_symbol |-> l[1], popped_symbol |-> l[2],
      next_state |-> e[2], pushed_symbol |-> l[3]] : e \in edges, l \in labels}

SeqsUpTo(S, n) == UNION {[1..k -> S] : k \in 1..n}

\* the input.csv files of the model
CsvFiles ==
    [states : {<<q0, q1>>},
     input_alphabet : {<<a>>},
     stack_alphabet : {<<Z, Y>>},
     transitions : SeqsUpTo(RowsOf(Edges, Labels), MaxTrans),
     initial_state : {q0, q1},
     final_states : {<<q1>>, <<q0, q1>>, <<q2>>}]
    \cup
    [states : {<<q0, q1, q10>>},
     input_alphabet : {<<a>>},
     stack_alphabet : {<<Z>>},
     transitions : SeqsUpTo(RowsOf(WideEdges, PlainLabels), MaxTrans),
     initial_state : {q0, q1},
     final_states : {<<q1>>, <<q0, q1>>, <<q2>>}]

\* ------------------------------------------------------------------------
\* The pipeline (the statements at module level)
\* ------------------------------------------------------------------------

VARIABLES pc, pda_json, rules, cfg_json, output_csv, error

vars == <<pc, pda_json, rules, cfg_json, output_csv, error>>

NoCfg == create_cfg_json({}, <<>>, <<>>, None)
NoError == Err("", <<>>)

\* pda_json = read_pda_from_csv('input.csv')
Init ==
    /\ \E csv \in CsvFiles : pda_json = read_pda_from_csv(csv)
    /\ pc = "validate_pda"
    /\ rules = <<>>
    /\ cfg_json = NoCfg
    /\ output_csv = NoCfg
    /\ error = NoError

\* validate_pda(pda_json) returns
ValidatePda ==
    /\ pc = "validate_pda"
    /\ validate_pda(pda_json) = {}
    /\ pc' = "validate_pda_conversion"
    /\ UNCHANGED <<pda_json, rules, cfg_json, output_csv, error>>

\* validate_pda(pda_json) raises: the program ends with the traceback
ValidatePdaRaises ==
    /\ pc = "validate_pda"
    /\ \E e \in validate_pda(pda_json) : error' = e
    /\ pc' = "error"
    /\ UNCHANGED <<pda_json, rules, cfg_json, output_csv>>

\* validate_pda_conversion(pda_json) returns
ValidatePdaConversion ==
    /\ pc = "validate_pda_conversion"
    /\ validate_pda_conversion(pda_json) = {}
    /\ pc' = "find_push_to_pop"
    /\ UNCHANGED <<pda_json, rules, cfg_json, output_csv, error>>

\* validate_pda_conversion(pda_json) raises
ValidatePdaConversionRaises ==
    /\ pc = "validate_pda_conversion"
    /\ \E e \in validate_pda_conversion(pda_json) : error' = e
    /\ pc' = "error"
    /\ UNCHANGED <<pda_json, rules, cfg_json, output_csv>>

\* rules = find_push_to_pop(pda_json)
FindPushToPop ==
    /\ pc = "find_push_to_pop"
    /\ rules' = find_push_to_pop(pda_json)
    /\ pc' = "generate_rules"
    /\ UNCHANGED <<pda_json, cfg_json, output_csv, error>>

\* rules = generate_rules(pda_json, rules)
GenerateRules ==
    /\ pc = "generate_rules"
    /\ rules' = generate_rules(pda_json, rules)
    /\ pc' = "prune_useless_rules"
    /\ UNCHANGED <<pda_json, cfg_json, output_csv, error>>

\* finish_grammar, step 1: rules = prune_useless_rules(rules)
PruneUselessRules ==
    /\ pc = "prune_useless_rules"
    /\ rules' = prune_useless_rules(rules)
    /\ pc' = "add_epsilon_rules"
    /\ UNCHANGED <<pda_json, cfg_json, output_csv, error>>

\* finish_grammar, step 2: add_epsilon_rules(rules, largest_transition_number)
AddEpsilonRules ==
    /\ pc = "add_epsilon_rules"
    /\ rules' = add_epsilon_rules(rules, find_largest_transition_number(pda_json))
    /\ pc' = "add_final_transition_rule"
    /\ UNCHANGED <<pda_json, cfg_json, output_csv, error>>

\* finish_grammar, step 3: add_final_transition_rule(rules, largest_transition_number)
AddFinalTransitionRule ==
    /\ pc = "add_final_transition_rule"
    /\ rules' = add_final_transition_rule(rules, find_largest_transition_number(pda_json))
    /\ pc' = "process_grammar_and_create_cfg"
    /\ UNCHANGED <<pda_json, cfg_json, output_csv, error>>

\* cfg_json = process_grammar_and_create_cfg(rules, pda_json)
ProcessGrammarAndCreateCfg ==
    /\ pc = "process_grammar_and_create_cfg"
    /\ cfg_json' = process_grammar_and_create_cfg(rules, pda_json)
    /\ pc' = "write_cfg_to_csv"
    /\ UNCHANGED <<pda_json, rules, output_csv, error>>

\* write_cfg_to_csv(cfg_json)
WriteCfgToCsv ==
    /\ pc = "write_cfg_to_csv"
    /\ output_csv' = cfg_json
    /\ pc' = "done"
    /\ UNCHANGED <<pda_json, rules, cfg_json, error>>

Next ==
    \/ ValidatePda
    \/ ValidatePdaRaises
    \/ ValidatePdaConversion
    \/ ValidatePdaConversionRaises
    \/ FindPushToPop
    \/ GenerateRules
    \/ PruneUselessRules
    \/ AddEpsilonRules
    \/ AddFinalTransitionRule
    \/ ProcessGrammarAndCreateCfg
    \/ WriteCfgToCsv

Spec == Init /\ [][Next]_vars

\* ------------------------------------------------------------------------
\* Vocabulary of the properties
\* ------------------------------------------------------------------------

\* the positions of the transitions of pda_json: entry i, transition j
Pos == UNION {{<<i, j>> : j \in 1..Len(pda_json.transitions[i].value)} :
                i \in 1..Len(pda_json.transitions)}

SrcAt(p) == pda_json.transitions[p[1]].key
TransAt(p) == pda_json.transitions[p[1]].value[p[2]]

StackSymbolsUsed ==
    ({TransAt(p).pushed_symbol : p \in Pos} \cup {TransAt(p).popped_symbol : p \in Pos})
        \ {epsilon}

PushCount(x) == Cardinality({p \in Pos : TransAt(p).pushed_symbol = x})
PopCount(x) == Cardinality({p \in Pos : TransAt(p).popped_symbol = x})

\* both validators have returned
Validated == pc \notin {"validate_pda", "validate_pda_conversion", "error"}

\* rules holds the list returned by find_push_to_pop
PairsReturned == pc = "generate_rules"

\* rules holds the grammar returned by finish_grammar
Finished == pc \in {"process_grammar_and_create_cfg", "write_cfg_to_csv", "done"}

\* A[i, j] for two states
Span(s, t) == RuleName(StateNumber(s), StateNumber(t))

\* A[i, i] for a state of the PDA
IsIdentityInstance(name) == \E s \in Range(pda_json.states) : name = Span(s, s)

Families == {A_ii, A_ik}

\* ------------------------------------------------------------------------
\* C1
\* ------------------------------------------------------------------------

\* C1 (as stated): once validate_pda_conversion has returned, every stack
\* symbol has as many pushing as popping transitions.
C1_BalancedBothWays ==
    Validated => \A x \in StackSymbolsUsed : PushCount(x) = PopCount(x)

\* C1 (amended): validate_stack_operations fails exactly on a stack symbol with
\* more pushing than popping transitions: after the validators have returned no
\* symbol has more pushes than pops, and the "Stack not emptied" error names a
\* symbol that has more pushes than pops.
C1_NoSymbolPushedMoreThanPopped ==
    /\ Validated => \A x \in StackSymbolsUsed : PushCount(x) <= PopCount(x)
    /\ error.kind = "Stack not emptied" => PushCount(error.entity) > PopCount(error.entity)

\* a PDA with a symbol popped by more transitions than push it is accepted
C1_Witness ==
    /\ Validated
    /\ \E x \in StackSymbolsUsed : PushCount(x) < PopCount(x) /\ PushCount(x) > 0

\* ------------------------------------------------------------------------
\* C2
\* ------------------------------------------------------------------------

\* C2: the start variable of the CFG is A[initial state, final state].
C2_StartVariableSpansInitialToFinal ==
    pc \in {"write_cfg_to_csv", "done"} =>
        cfg_json.start_variable = Span(pda_json.initial_state, pda_json.final_states[1])

\* ------------------------------------------------------------------------
\* C3
\* ------------------------------------------------------------------------

\* C3: in the grammar returned by finish_grammar, the nonterminal of every
\* alternative of a pairing-derived production is a left-hand side of the
\* returned rules or an identity-rule instance A[i,i].
C3_NoDanglingReference ==
    Finished =>
        \A k \in 1..Len(rules) : rules[k].key \notin Families =>
            \A part \in Range(rules[k].value) :
                part[2] \in Keys(rules) \/ IsIdentityInstance(part[2])

\* ------------------------------------------------------------------------
\* C4
\* ------------------------------------------------------------------------

\* C4: pruning the pruned output of generate_rules again changes nothing.
C4_PruningIdempotent ==
    pc = "prune_useless_rules" =>
        prune_useless_rules(prune_useless_rules(rules)) = prune_useless_rules(rules)

\* ------------------------------------------------------------------------
\* C5
\* ------------------------------------------------------------------------

ThePair(p, q) == [stack_symbol |-> TransAt(p).pushed_symbol,
                  start_push_state |-> SrcAt(p),
                  end_push_state |-> TransAt(p).next_state,
                  start_pop_state |-> SrcAt(q),
                  end_pop_state |-> TransAt(q).next_state]

Occurrences(list, x) == Cardinality({k \in 1..Len(list) : list[k] = x})

\* C5 (as stated): every push transition of a symbol and every transition that
\* pops that symbol have exactly one pair in the list of find_push_to_pop.
C5_EveryPushPopCombinationPaired ==
    PairsReturned =>
        \A p \in Pos, q \in Pos :
            (/\ TransAt(p).pushed_symbol # epsilon
             /\ TransAt(q).popped_symbol = TransAt(p).pushed_symbol)
            => Occurrences(rules, ThePair(p, q)) = 1

\* C5 (amended): every push transition of a symbol and every transition that
\* pops that symbol and pushes nothing have exactly one pair in the list of
\* find_push_to_pop, and no 5-tuple is listed twice.
C5_EveryPushPurePopCombinationPaired ==
    PairsReturned =>
        /\ \A p \in Pos, q \in Pos :
            (/\ TransAt(p).pushed_symbol # epsilon
             /\ TransAt(q).popped_symbol = TransAt(p).pushed_symbol
             /\ TransAt(q).pushed_symbol = epsilon)
            => Occurrences(rules, ThePair(p, q)) = 1
        /\ \A k \in 1..Len(rules) : Occurrences(rules, rules[k]) = 1

\* a push that also pops is paired with a pure pop, and two combinations of
\* transitions share one pair
C5_Witness ==
    /\ PairsReturned
    /\ \E p \in Pos, q \in Pos :
        /\ TransAt(p).pushed_symbol # epsilon
        /\ TransAt(p).popped_symbol # epsilon
        /\ TransAt(q).popped_symbol = TransAt(p).pushed_symbol
        /\ TransAt(q).pushed_symbol = epsilon
        /\ ThePair(p, q) \in Range(rules)
    /\ \E p \in Pos, q \in Pos, r \in Pos :
        /\ q # r
        /\ ThePair(p, q) = ThePair(p, r)
        /\ ThePair(p, q) \in Range(rules)

\* ------------------------------------------------------------------------
\* C6
\* ------------------------------------------------------------------------

\* C6: every pair of find_push_to_pop has a stack symbol of the stack alphabet
\* (never epsilon) that a transition between its push states pushes and a
\* transition between its pop states pops.
C6_PairsBackedBySameSymbol ==
    PairsReturned =>
        \A k \in 1..Len(rules) :
            /\ rules[k].stack_symbol \in Range(pda_json.stack_symbols)
            /\ rules[k].stack_symbol # epsilon
            /\ \E p \in Pos :
                /\ SrcAt(p) = rules[k].start_push_state
                /\ TransAt(p).next_state = rules[k].end_push_state
                /\ TransAt(p).pushed_symbol = rules[k].stack_symbol
            /\ \E q \in Pos :
                /\ SrcAt(q) = rules[k].start_pop_state
                /\ TransAt(q).next_state = rules[k].end_pop_state
                /\ TransAt(q).popped_symbol = rules[k].stack_symbol

\* pairs are returned for a PDA that uses two stack symbols
C6_Witness ==
    /\ PairsReturned
    /\ Len(rules) >= 2
    /\ Cardinality(StackSymbolsUsed) = 2

\* ------------------------------------------------------------------------
\* C7
\* ------------------------------------------------------------------------

\* a PDA that the validators have to reject: a final state that is no state,
\* two final states, a symbol pushed more often than popped, or a transition
\* that pops the symbol it pushes
Rejectable ==
    \/ \E f \in Range(pda_json.final_states) : f \notin Range(pda_json.states)
    \/ Len(pda_json.final_states) > 1
    \/ \E x \in StackSymbolsUsed : PushCount(x) > PopCount(x)
    \/ \E p \in Pos : TransAt(p).popped_symbol = TransAt(p).pushed_symbol

NothingProduced == rules = <<>> /\ cfg_json = NoCfg /\ output_csv = NoCfg

\* C7: pairing, generation and finishing start only after both validators have
\* returned; a PDA that a validator rejects never gets past validation, and
\* the run that ends in the error has paired, produced and written nothing.
C7_ValidationFrontLoaded ==
    /\ Rejectable => ~Validated
    /\ ~Validated => NothingProduced
    /\ (pc = "error") = (error # NoError)
    /\ Validated => validate_pda(pda_json) = {} /\ validate_pda_conversion(pda_json) = {}

\* the run has ended on a transition with popped_symbol = pushed_symbol = "Z"
C7_Witness ==
    /\ pc = "error"
    /\ error.kind = "PDA transitions incorrect"
    /\ error.entity = Z
    /\ Len(pda_json.final_states) = 1
    /\ NothingProduced

\* ------------------------------------------------------------------------
\* C8
\* ------------------------------------------------------------------------

\* the input symbols read by the transitions that push sym into state
PushSide(sym, state) ==
    {TransAt(p).input_symbol : p \in {r \in Pos : /\ TransAt(r).next_state = state
                                                  /\ TransAt(r).pushed_symbol = sym}}

\* the input symbols read by the transitions that pop sym into state
PopSide(sym, state) ==
    {TransAt(p).input_symbol : p \in {r \in Pos : /\ TransAt(r).next_state = state
                                                  /\ TransAt(r).popped_symbol = sym}}

Alternatives(d, k) == IF k \in Keys(d) THEN Lookup(d, k) ELSE <<>>

IsPrefix(s, t) == Len(s) <= Len(t) /\ SubSeq(t, 1, Len(s)) = s

\* C8: generate_rules puts, for every pair it is given and every push-side
\* symbol x and pop-side symbol y, the alternative x A[p1,q0] y under A[p0,q1];
\* and each further pair only appends: the alternatives that the pairs before
\* it have produced stay, in their places, under their left-hand sides.
C8_EveryCombinationAppended ==
    [][pc = "generate_rules" =>
        /\ \A k \in 1..Len(rules) :
            LET pair == rules[k]
            IN  \A x \in PushSide(pair.stack_symbol, pair.end_push_state),
                   y \in PopSide(pair.stack_symbol, pair.end_pop_state) :
                    <<x, Span(pair.end_push_state, pair.start_pop_state), y>>
                        \in Range(Alternatives(rules',
                                Span(pair.start_push_state, pair.end_pop_state)))
        /\ \A k \in 1..Len(rules) :
            LET before == generate_rules(pda_json, SubSeq(rules, 1, k - 1))
                after == generate_rules(pda_json, SubSeq(rules, 1, k))
            IN  \A i \in 1..Len(before) :
                    /\ after[i].key = before[i].key
                    /\ IsPrefix(before[i].value, after[i].value)
        /\ rules' = generate_rules(pda_json, rules)]_vars

\* generate_rules has returned a left-hand side whose alternatives come from
\* two pairs (they have different inner nonterminals), with an input symbol
\* on the push side and epsilon on the pop side
C8_Witness ==
    /\ pc = "prune_useless_rules"
    /\ \E k \in 1..Len(rules) :
        \E part \in Range(rules[k].value), other \in Range(rules[k].value) :
            /\ part[2] # other[2]
            /\ part[1] = a
            /\ part[3] = epsilon

\* ------------------------------------------------------------------------
\* C9
\* ------------------------------------------------------------------------

\* C9: prune_useless_rules keeps an alternative x A[i,j] y exactly if A[i,j] is
\* a left-hand side of the rules it is given or i = j.
C9_KeptIffDefinedOrIdentity ==
    [][pc = "prune_useless_rules" =>
        \A k \in 1..Len(rules) : \A part \in Range(rules[k].value) :
            (part \in Range(Alternatives(rules', rules[k].key)))
                = (part[2] \in Keys(rules) \/ IsIdentityInstance(part[2]))]_vars

\* ------------------------------------------------------------------------
\* C10
\* ------------------------------------------------------------------------

PairingDerived(d) == SelectSeq(d, LAMBDA e : e.key \notin Families)

\* C10 (as stated): the two families are in the rule set when the pruning pass
\* starts, and no step after the pruning pass changes the rule set.
C10_ClosingBeforePruning ==
    [][/\ pc = "prune_useless_rules" => Families \subseteq Keys(rules)
       /\ pc \in {"add_epsilon_rules", "add_final_transition_rule",
                  "process_grammar_and_create_cfg", "write_cfg_to_csv", "done"}
            => rules' = rules]_vars

\* C10 (amended): the finisher goes collecting -> pruning -> closing: the
\* pruning pass runs first, on the pairing-derived rules alone; then the
\* identity family and then the closure family are appended behind the pruned
\* rules, which they leave as they are; appending the closure family is the
\* last step that changes the rule set.
C10_PruningBeforeClosing ==
    [][/\ pc = "generate_rules" => pc' = "prune_useless_rules"
       /\ pc = "prune_useless_rules" =>
            /\ Keys(rules) \cap Families = {}
            /\ Keys(rules') \cap Families = {}
            /\ pc' = "add_epsilon_rules"
       /\ pc = "add_epsilon_rules" =>
            /\ rules' = Append(rules, rules'[Len(rules')])
            /\ rules'[Len(rules')].key = A_ii
            /\ pc' = "add_final_transition_rule"
       /\ pc = "add_final_transition_rule" =>
            /\ rules' = Append(rules, rules'[Len(rules')])
            /\ rules'[Len(rules')].key = A_ik
            /\ pc' = "process_grammar_and_create_cfg"
       /\ pc \in {"process_grammar_and_create_cfg", "write_cfg_to_csv", "done"}
            => rules' = rules]_vars

\* the finished grammar: pruned pairing-derived rules, then the two families
C10_Witness ==
    /\ pc = "done"
    /\ Len(rules) >= 3
    /\ rules[Len(rules) - 1].key = A_ii
    /\ rules[Len(rules)].key = A_ik
    /\ Len(PairingDerived(rules)) = Len(rules) - 2

\* ------------------------------------------------------------------------
\* C11
\* ------------------------------------------------------------------------

\* the state numbers that occur as source or target of a transition
IndicesUsed ==
    {StateNumber(SrcAt(p)) : p \in Pos} \cup {StateNumber(TransAt(p).next_state) : p \in Pos}

\* the number written in a token of a quantifier comment: "1", "10" or "10,"
BoundIn(token) == int(split(token, ",")[1])

\* the index ranges "lo <= v <= hi" declared after the "for" of a family
DeclaredRanges(name) ==
    LET part == Lookup(rules, name)[1]
        at == {k \in 1..Len(part) : part[k] = LE /\ k + 2 <= Len(part) /\ part[k + 2] = LE}
    IN  {<<BoundIn(part[k - 1]), BoundIn(part[k + 3])>> : k \in at}

\* C11: the ranges declared for A_ii -> epsilon and A_ik -> A_ij A_jk hold
\* every state index that is a source or a target of a transition, from the
\* smallest (0 included) to the largest.
C11_FamiliesCoverEveryIndex ==
    Finished =>
        \A name \in Families : \A range \in DeclaredRanges(name) :
            \A n \in IndicesUsed : range[1] <= n /\ n <= range[2]

\* ------------------------------------------------------------------------
\* A second family of input files: states q1 and q11, pops that read an input
\* symbol and pops that read none
\* ------------------------------------------------------------------------

q11 == StateName(11)

\* (current_state, next_state) of the rows
TwoDigitEdges == {<<q1, q11>>, <<q11, q1>>, <<q1, q1>>}

\* one push and two pops
ReadingLabels == {<<a, epsilon, Z>>, <<epsilon, Z, epsilon>>, <<a, Z, epsilon>>}

CsvFilesTwoDigit ==
    [states : {<<q1, q11>>},
     input_alphabet : {<<a>>},
     stack_alphabet : {<<Z>>},
     transitions : SeqsUpTo(RowsOf(TwoDigitEdges, ReadingLabels), MaxTrans),
     initial_state : {q1, q11},
     final_states : {<<q11>>, <<q1, q11>>, <<q2>>}]

\* pda_json = read_pda_from_csv('input.csv')
InitTwoDigit ==
    /\ \E csv \in CsvFilesTwoDigit : pda_json = read_pda_from_csv(csv)
    /\ pc = "validate_pda"
    /\ rules = <<>>
    /\ cfg_json = NoCfg
    /\ output_csv = NoCfg
    /\ error = NoError

SpecTwoDigit == InitTwoDigit /\ [][Next]_vars

\* ------------------------------------------------------------------------
\* C12
\* ------------------------------------------------------------------------

\* the pairs of state numbers that generate_rules names for the pairs it is
\* given: the outer span (p0, q1) and the inner span (p1, q0) of each
SpansNamed ==
    UNION {{<<StateNumber(rules[k].start_push_state), StateNumber(rules[k].end_pop_state)>>,
            <<StateNumber(rules[k].end_push_state), StateNumber(rules[k].start_pop_state)>>} :
                k \in 1..Len(rules)}

\* C12: two different ordered pairs of state indices never get the same
\* nonterminal name from generate_rules.
C12_NamesInjective ==
    PairsReturned =>
        \A s \in SpansNamed, t \in SpansNamed :
            RuleName(s[1], s[2]) = RuleName(t[1], t[2]) => s = t

\* ------------------------------------------------------------------------
\* C13
\* ------------------------------------------------------------------------

\* C13: every alternative x A[p1,q0] y that generate_rules has put under
\* A[p0,q1] has a transition from p0 to p1 that reads x and pushes a symbol
\* and a transition from q0 to q1 that reads y and pops that symbol.
C13_AlternativesWitnessedBySources ==
    pc = "prune_useless_rules" =>
        \A k \in 1..Len(rules) : \A part \in Range(rules[k].value) :
            \E p \in Pos, q \in Pos :
                /\ TransAt(p).pushed_symbol # epsilon
                /\ TransAt(q).popped_symbol = TransAt(p).pushed_symbol
                /\ TransAt(p).input_symbol = part[1]
                /\ TransAt(q).input_symbol = part[3]
                /\ Span(SrcAt(p), TransAt(q).next_state) = rules[k].key
                /\ Span(TransAt(p).next_state, SrcAt(q)) = part[2]

====
